---- MODULE Spec2Model ----
(***************************************************************************)
(* scriptsort (src/.local/src/scriptsort.c): one invocation of main().     *)
(* The run parses its flags, scans one directory, classifies every entry   *)
(* into lower_files / unordered_files / upper_files, sorts the three       *)
(* arrays with qsort, assembles a buffer (file names, or file contents in  *)
(* bundle mode) and prints it.                                             *)
(*                                                                         *)
(* A C string is a sequence of one-character strings; Ascii gives the byte *)
(* value the code compares.  "NUL" is the byte 0 and "UNINIT" a byte of    *)
(* malloc'ed memory that was never written.                                *)
(***************************************************************************)
EXTENDS Integers, Sequences, FiniteSets, TLC

\* ---------------------------------------------------------------- bounds
\* Most entries one directory holds.
MaxEntries == 3
\* MAX_FILES (scriptsort.c:26, 1000 in the source) scaled to the directory
\* sizes above, so that a partition array does fill up.
MAX_FILES == 2
\* INITIAL_BUFFER_SIZE (scriptsort.c:28, 4096 in the source) scaled to the
\* file sizes of FileContents, so that the buffer does have to grow.
INITIAL_BUFFER_SIZE == 4
\* Most doublings of the bundle buffer the capacity formula looks for.
MaxDoublings == 6

\* ------------------------------------------------------------- C integers
\* <limits.h>: int is 32 bits wide.
INT_MAX == 2147483647
INT_MIN == (-2147483647) - 1

EXIT_SUCCESS == 0
EXIT_FAILURE == 1

\* a - b does not fit an int (C11 6.5p5: the behaviour is undefined).
\* Written so that no intermediate value leaves the 32-bit range.
SubOverflows(a, b) ==
  \/ b < 0 /\ a > INT_MAX + b
  \/ b > 0 /\ a < INT_MIN + b

\* The value a two's-complement build leaves in the int for a - b.
Wrap32Sub(a, b) ==
  IF ~SubOverflows(a, b) THEN a - b
  ELSE IF b < 0 THEN ((a + INT_MIN) - b) + INT_MIN
  ELSE ((a - INT_MIN) - b) - INT_MIN

\* x < y after the usual arithmetic conversions have turned both operands
\* into unsigned int (C11 6.3.1.8): a negative int becomes x + 2^32, which
\* is above every non-negative one.
UnsignedLess(x, y) == IF (x < 0) = (y < 0) THEN x < y ELSE y < 0

Sign(x) == IF x < 0 THEN -1 ELSE IF x > 0 THEN 1 ELSE 0

\* ---------------------------------------------------------------- strings
Ascii ==
  "NUL" :> 0 @@ "UNINIT" :> 255 @@ "\n" :> 10 @@ " " :> 32 @@ "+" :> 43 @@
  "-" :> 45 @@ "." :> 46 @@
  "0" :> 48 @@ "1" :> 49 @@ "2" :> 50 @@ "3" :> 51 @@ "4" :> 52 @@
  "5" :> 53 @@ "6" :> 54 @@ "7" :> 55 @@ "8" :> 56 @@ "9" :> 57 @@
  "B" :> 66 @@ "I" :> 73 @@ "N" :> 78 @@ "T" :> 84 @@
  "a" :> 97 @@ "b" :> 98 @@ "c" :> 99 @@ "d" :> 100 @@ "e" :> 101 @@
  "f" :> 102 @@ "g" :> 103 @@ "h" :> 104 @@ "i" :> 105 @@ "k" :> 107 @@
  "l" :> 108 @@ "m" :> 109 @@ "n" :> 110 @@ "o" :> 111 @@ "p" :> 112 @@
  "r" :> 114 @@ "s" :> 115 @@ "t" :> 116 @@ "u" :> 117 @@ "x" :> 120 @@
  "y" :> 121 @@ "z" :> 122

isdigit(c) == Ascii[c] >= 48 /\ Ascii[c] <= 57
isspace(c) == Ascii[c] = 32 \/ (Ascii[c] >= 9 /\ Ascii[c] <= 13)
toupper(x) == IF x >= 97 /\ x <= 122 THEN x - 32 ELSE x
tolower(x) == IF x >= 65 /\ x <= 90 THEN x + 32 ELSE x

\* s[p] with the terminator read past the last character.
ByteAt(s, p) == IF p <= Len(s) THEN Ascii[s[p]] ELSE 0

\* strncmp(s, prefix, strlen(prefix)) == 0
HasPrefix(s, prefix) ==
  /\ Len(s) >= Len(prefix)
  /\ \A k \in 1..Len(prefix) : s[k] = prefix[k]

\* strcmp: the difference of the first pair of bytes that differ, compared
\* as unsigned char; 0 when the strings are equal.
RECURSIVE strcmpFrom(_, _, _)
strcmpFrom(a, b, p) ==
  IF ByteAt(a, p) # ByteAt(b, p) THEN ByteAt(a, p) - ByteAt(b, p)
  ELSE IF p > Len(a) THEN 0
  ELSE strcmpFrom(a, b, p + 1)

strcmp(a, b) == strcmpFrom(a, b, 1)

\* wal_stricmp: -1, 0 or 1 on the bytes folded by tolower(toupper(c)).
RECURSIVE wal_stricmpFrom(_, _, _)
wal_stricmpFrom(a, b, p) ==
  LET ca == tolower(toupper(ByteAt(a, p)))
      cb == tolower(toupper(ByteAt(b, p)))
  IN  IF ca = cb /\ ca # 0 THEN wal_stricmpFrom(a, b, p + 1)
      ELSE IF ca = cb THEN 0 ELSE IF ca < cb THEN -1 ELSE 1

wal_stricmp(a, b) == wal_stricmpFrom(a, b, 1)

\* The bytes of a buffer up to its first NUL: what %s, strlen and strcat read.
RECURSIVE CStrFrom(_, _)
CStrFrom(mem, p) ==
  IF p > Len(mem) \/ mem[p] = "NUL" THEN <<>>
  ELSE <<mem[p]>> \o CStrFrom(mem, p + 1)

CStr(mem) == CStrFrom(mem, 1)

\* ----------------------------------------------------------------- strtol
\* The first index at or after p that holds no white space.
RECURSIVE SkipSpace(_, _)
SkipSpace(s, p) ==
  IF p <= Len(s) /\ isspace(s[p]) THEN SkipSpace(s, p + 1) ELSE p

\* The first index at or after p that holds no decimal digit.
RECURSIVE DigitsEnd(_, _)
DigitsEnd(s, p) ==
  IF p <= Len(s) /\ isdigit(s[p]) THEN DigitsEnd(s, p + 1) ELSE p

\* The value of the digits s[p..q-1]; over is set once it passes INT_MAX
\* (the callers only ask whether the long result is above INT_MAX).
RECURSIVE DecValue(_, _, _, _)
DecValue(s, p, q, acc) ==
  IF p >= q THEN acc
  ELSE LET d == Ascii[s[p]] - 48
       IN  IF acc.over \/ acc.val > (INT_MAX - d) \div 10
           THEN DecValue(s, p + 1, q, [over |-> TRUE, val |-> INT_MAX])
           ELSE DecValue(s, p + 1, q,
                         [over |-> FALSE, val |-> acc.val * 10 + d])

\* strtol(s + p - 1, &endptr, 10) with a 64-bit long: white space is
\* skipped, one sign is accepted, then the longest run of digits is read.
\* num is the result when it lies in -INT_MAX..INT_MAX; over says that its
\* magnitude is above INT_MAX; endptr = p when no digit was read.
strtol(s, p) ==
  LET p1  == SkipSpace(s, p)
      neg == p1 <= Len(s) /\ s[p1] = "-"
      p2  == IF p1 <= Len(s) /\ s[p1] \in {"+", "-"} THEN p1 + 1 ELSE p1
      q   == DigitsEnd(s, p2)
      v   == DecValue(s, p2, q, [over |-> FALSE, val |-> 0])
  IN  IF q = p2 THEN [num |-> 0, over |-> FALSE, endptr |-> p]
      ELSE [num |-> IF neg THEN -v.val ELSE v.val,
            over |-> v.over, endptr |-> q]

\* atoi(s): (int) strtol(s, NULL, 10).  A value outside the int range is
\* undefined (C11 7.22.1p1); glibc then yields -1 or 0, another libc may
\* clamp.
atoiOutcomes(s) ==
  LET r == strtol(s, 1)
  IN  IF r.over THEN {-1, 0, INT_MAX} ELSE {r.num}

\* ----------------------------------------------------------------- inputs
\* "ordered." and "skip.", the two literal prefixes of the scan loop.
ORDERED == <<"o", "r", "d", "e", "r", "e", "d", ".">>
SKIP == <<"s", "k", "i", "p", ".">>

N_dot == <<".">>
N_dotdot == <<".", ".">>
N_skip_tmp == SKIP \o <<"t", "m", "p">>
N_fn_a == <<"f", "n", ".", "a">>
N_fn_b == <<"f", "n", ".", "b">>
N_ordered_01_first == ORDERED \o <<"0", "1", ".", "f", "i", "r", "s", "t">>
N_ordered_52_last == ORDERED \o <<"5", "2", ".", "l", "a", "s", "t">>
N_ordered_10_y == ORDERED \o <<"1", "0", ".", "y">>
N_ordered_plus7_x == ORDERED \o <<"+", "7", ".", "x">>
N_ordered_x == ORDERED \o <<"x">>
N_ordered_intmax_z == ORDERED \o <<"2", "1", "4", "7", "4", "8", "3", "6", "4", "7", ".", "z">>
N_ordered_toobig_z == ORDERED \o <<"2", "1", "4", "7", "4", "8", "3", "6", "4", "8", ".", "z">>

\* The names a directory is made of.
DirNames ==
  { N_dot, N_dotdot, N_skip_tmp, N_fn_a, N_fn_b, N_ordered_01_first,
    N_ordered_52_last, N_ordered_10_y, N_ordered_plus7_x,
    N_ordered_x, N_ordered_intmax_z, N_ordered_toobig_z }

\* What a file of the directory holds; ok = FALSE is a file that fopen,
\* stat, malloc or fread refuses (read_file_contents returns NULL).
Unreadable == [ok |-> FALSE, data |-> <<>>]
FileContents ==
  { Unreadable,
    [ok |-> TRUE, data |-> <<>>],
    [ok |-> TRUE, data |-> <<"a", "NUL", "b">>],
    [ok |-> TRUE, data |-> <<"e", "c", "h", "o", " ", "h", "i">>] }

A_prog == <<"s", "c", "r", "i", "p", "t", "s", "o", "r", "t">>
A_dir == <<"d">>
A_init == <<"-", "-", "i", "n", "i", "t">>
A_INIT == <<"-", "-", "I", "N", "I", "T">>
A_bundle == <<"-", "-", "b", "u", "n", "d", "l", "e">>
A_debug == <<"-", "-", "d", "e", "b", "u", "g">>
A_cutoff == <<"-", "-", "c", "u", "t", "o", "f", "f">>
A_10 == <<"1", "0">>
A_0 == <<"0">>
A_minus5 == <<"-", "5">>
A_10x == <<"1", "0", "x">>
A_abc == <<"a", "b", "c">>

\* The command lines a run is started with (argv[0] first).
ArgVectors ==
  { <<A_prog>>,
    <<A_prog, A_dir>>,
    <<A_prog, A_dir, A_INIT, A_debug>>,
    <<A_prog, A_dir, A_bundle>>,
    <<A_prog, A_dir, A_init, A_bundle>>,
    <<A_prog, A_dir, A_bundle, A_debug, A_init>>,
    <<A_prog, A_dir, A_cutoff, A_10>>,
    <<A_prog, A_dir, A_cutoff, A_0>>,
    <<A_prog, A_dir, A_cutoff, A_minus5>>,
    <<A_prog, A_dir, A_cutoff, A_10x>>,
    <<A_prog, A_dir, A_cutoff, A_abc>>,
    <<A_prog, A_dir, A_init, A_cutoff>> }

\* ------------------------------------------------------- program constants
\* #define MAX_FILENAME 256
MAX_FILENAME == 256
\* unsigned int cutoff_count = 50;
DEFAULT_CUTOFF == 50

\* ------------------------------------------------------- pure functions
\* extract_order_number: -1 unless the name starts with "ordered." and
\* strtol reads a number in 0..INT_MAX right after the prefix.
extract_order_number(filename) ==
  IF ~HasPrefix(filename, ORDERED) THEN -1
  ELSE LET r == strtol(filename, Len(ORDERED) + 1)
       IN  IF \/ r.endptr = Len(ORDERED) + 1
              \/ r.num < 0
              \/ (r.over /\ r.num > 0)
           THEN -1
           ELSE r.num

\* strncpy(new_entry.name, entry->d_name, MAX_FILENAME - 1) into a zeroed
\* array, then bytesize = strlen(new_entry.name).
NewEntry(d_name) ==
  LET name == SubSeq(d_name, 1,
                     IF Len(d_name) < MAX_FILENAME - 1 THEN Len(d_name)
                     ELSE MAX_FILENAME - 1)
  IN  [name |-> name,
       order_num |-> extract_order_number(d_name),
       bytesize |-> Len(name)]

\* Category with the lower range closed at the cutoff (<= for <).
CategoryInclusive(order_num, cutoff) ==
  IF order_num >= 0 /\ ~UnsignedLess(cutoff, order_num) THEN "lower"
  ELSE IF UnsignedLess(cutoff, order_num) THEN "upper"
  ELSE "unordered"

\* The if / else if / else of the scan loop.  order_num is an int and
\* cutoff_count an unsigned int, so both comparisons with cutoff_count are
\* made on unsigned values.
Category(order_num, cutoff) ==
  IF order_num >= 0 /\ UnsignedLess(order_num, cutoff) THEN "lower"
  ELSE IF ~UnsignedLess(order_num, cutoff) THEN "upper"
  ELSE "unordered"

\* array[count++] = new_entry, when count < MAX_FILES.
Store(array, entry) ==
  IF Len(array) < MAX_FILES THEN Append(array, entry) ELSE array

\* compare_ordered_files: the int difference of the order numbers when they
\* differ (the wrapped value where the subtraction overflows), else strcmp.
compare_ordered_files(fa, fb) ==
  IF fa.order_num # fb.order_num
  THEN Wrap32Sub(fa.order_num, fb.order_num)
  ELSE strcmp(fa.name, fb.name)

\* compare_unordered: the same body as compare_ordered_files.
compare_unordered(fa, fb) ==
  IF fa.order_num # fb.order_num
  THEN Wrap32Sub(fa.order_num, fb.order_num)
  ELSE strcmp(fa.name, fb.name)

\* The call qsort makes through the function pointer cmp.
Call(cmp, fa, fb) ==
  IF cmp = "compare_unordered" THEN compare_unordered(fa, fb)
  ELSE compare_ordered_files(fa, fb)

\* A comparison of two elements of the array overflows its subtraction.
CompareOverflows(array) ==
  \E x, y \in DOMAIN array :
    SubOverflows(array[x].order_num, array[y].order_num)

Rearrangements(array) ==
  { [k \in DOMAIN array |-> array[f[k]]] : f \in Permutations(DOMAIN array) }

\* qsort(array, count, sizeof(FileEntry), cmp): the arrays qsort may leave.
\* With a comparator that is defined and consistent that is the sorted
\* array; a comparison that overflows is undefined, and qsort then leaves
\* the elements in an order nothing constrains (C11 7.22.5p4).
qsort(array, cmp) ==
  IF CompareOverflows(array) THEN Rearrangements(array)
  ELSE { r \in Rearrangements(array) :
           \A k \in 1..(Len(r) - 1) : Call(cmp, r[k], r[k + 1]) <= 0 }

\* The while loop of ensure_buffer_capacity.
RECURSIVE DoubleUntil(_, _)
DoubleUntil(new_capacity, needed_size) ==
  IF new_capacity < needed_size
  THEN DoubleUntil(new_capacity * 2, needed_size)
  ELSE new_capacity

\* ensure_buffer_capacity that doubles once instead of until it fits.
ensure_buffer_capacity_once(current_capacity, needed_size) ==
  IF needed_size > current_capacity
  THEN current_capacity * 2
  ELSE current_capacity

\* ensure_buffer_capacity: the capacity it leaves in *current_capacity
\* (realloc succeeds).
ensure_buffer_capacity(current_capacity, needed_size) ==
  IF needed_size > current_capacity
  THEN DoubleUntil(current_capacity, needed_size)
  ELSE current_capacity

\* OutputForm with the init test made first.
OutputFormInitFirst(initFlag, bundleFlag) ==
  IF initFlag THEN "init" ELSE IF bundleFlag THEN "bundle" ELSE "list"

\* The branch main takes after the sort: if (bundle) ... else if (init) ...
OutputForm(initFlag, bundleFlag) ==
  IF bundleFlag THEN "bundle" ELSE IF initFlag THEN "init" ELSE "list"

\* Memory: mem[k] is the byte at offset k - 1.  Writing bytes at offset off;
\* a write past the end lands in memory the block does not own.
WriteAt(mem, off, bytes) ==
  LET n == IF off + Len(bytes) > Len(mem) THEN off + Len(bytes) ELSE Len(mem)
  IN  [k \in 1..n |->
         IF k > off /\ k <= off + Len(bytes) THEN bytes[k - off]
         ELSE IF k <= Len(mem) THEN mem[k]
         ELSE "UNINIT"]

\* realloc(buffer, new_capacity): the old bytes, then bytes never written.
Realloc(mem, new_capacity) ==
  [k \in 1..(IF new_capacity > Len(mem) THEN new_capacity ELSE Len(mem)) |->
     IF k <= Len(mem) THEN mem[k] ELSE "UNINIT"]

\* The offset of the first NUL at or after off: where strcat starts to write.
RECURSIVE StrEnd(_, _)
StrEnd(mem, off) ==
  IF off >= Len(mem) \/ mem[off + 1] = "NUL" THEN off ELSE StrEnd(mem, off + 1)

Max(a, b) == IF a > b THEN a ELSE b

\* ------------------------------------------------------------------ state
VARIABLES
  pc,               \* where main is
  argv,             \* the command line
  i,                \* the index of the flag loop (as in C, argv[0] first)
  init, bundle, debugtext, cutoff_count,
  dir_ok,           \* opendir(argv[1]) can open the directory
  dir,              \* the names the directory holds
  unread,           \* the names readdir has not returned yet
  lower_files, upper_files, unordered_files,
  bytesize,         \* the int main sums the name lengths in
  heap,             \* "null", "live" or "freed": the state of buffer
  buffer,           \* the memory buffer points to
  buffer_capacity, current_size,
  n,                \* how many entries the assembly loops have passed
  files,            \* what read_file_contents found for each file it read
  extent,           \* the number of leading bytes of buffer touched so far
  stdout, stderr, exit_status

vars ==
  << pc, argv, i, init, bundle, debugtext, cutoff_count, dir_ok, dir, unread,
     lower_files, upper_files, unordered_files, bytesize, heap, buffer,
     buffer_capacity, current_size, n, files, extent, stdout, stderr,
     exit_status >>

argc == Len(argv)
\* argv[k] of the C code.
Arg(k) == argv[k + 1]

NoOutput == [form |-> "none", text |-> <<>>, debug |-> FALSE]

\* The entries in the order the three assembly loops visit them.
Assembly == lower_files \o unordered_files \o upper_files

Init ==
  /\ pc = "start"
  /\ argv \in ArgVectors
  /\ i = 2
  /\ init = FALSE /\ bundle = FALSE /\ debugtext = FALSE
  /\ cutoff_count = DEFAULT_CUTOFF
  /\ dir_ok \in BOOLEAN
  /\ dir \in { d \in SUBSET DirNames : Cardinality(d) <= MaxEntries }
  /\ dir_ok = FALSE => dir = {}
  /\ unread = dir
  /\ lower_files = <<>> /\ upper_files = <<>> /\ unordered_files = <<>>
  /\ bytesize = 0
  /\ heap = "null" /\ buffer = <<>>
  /\ buffer_capacity = 0 /\ current_size = 0
  /\ n = 0
  /\ files = <<>>
  /\ extent = 0
  /\ stdout = NoOutput /\ stderr = <<>> /\ exit_status = -1

Exit(status) == pc' = "done" /\ exit_status' = status

\* ---------------------------------------------------------------- actions
\* if (argc < 2) { print_usage(argv[0]); return EXIT_FAILURE; }
Usage ==
  /\ pc = "start" /\ argc < 2
  /\ stderr' = Append(stderr, "usage")
  /\ Exit(EXIT_FAILURE)
  /\ UNCHANGED << argv, i, init, bundle, debugtext, cutoff_count, dir_ok, dir,
                  unread, lower_files, upper_files, unordered_files, bytesize,
                  heap, buffer, buffer_capacity, current_size, n, files,
                  extent, stdout >>

BeginArgs ==
  /\ pc = "start" /\ argc >= 2
  /\ pc' = "args"
  /\ UNCHANGED << argv, i, init, bundle, debugtext, cutoff_count, dir_ok, dir,
                  unread, lower_files, upper_files, unordered_files, bytesize,
                  heap, buffer, buffer_capacity, current_size, n, files,
                  extent, stdout, stderr, exit_status >>

IsCutoffFlag == wal_stricmp(Arg(i), A_cutoff) = 0 /\ i + 1 < argc

\* One turn of the flag loop on --init, --bundle, --debug or a token that
\* matches no branch.
ParseFlag ==
  /\ pc = "args" /\ i < argc
  /\ LET isInit   == wal_stricmp(Arg(i), A_init) = 0
         isBundle == ~isInit /\ wal_stricmp(Arg(i), A_bundle) = 0
         isDebug  == ~isInit /\ ~isBundle /\ wal_stricmp(Arg(i), A_debug) = 0
     IN  /\ isInit \/ isBundle \/ isDebug \/ ~IsCutoffFlag
         /\ init' = (init \/ isInit)
         /\ bundle' = (bundle \/ isBundle)
         /\ debugtext' = (debugtext \/ isDebug)
  /\ i' = i + 1
  /\ UNCHANGED << pc, argv, cutoff_count, dir_ok, dir, unread, lower_files,
                  upper_files, unordered_files, bytesize, heap, buffer,
                  buffer_capacity, current_size, n, files, extent, stdout,
                  stderr, exit_status >>

IsCutoffTurn ==
  /\ pc = "args" /\ i < argc
  /\ wal_stricmp(Arg(i), A_init) # 0
  /\ wal_stricmp(Arg(i), A_bundle) # 0
  /\ wal_stricmp(Arg(i), A_debug) # 0
  /\ IsCutoffFlag

\* --cutoff <value>: count = atoi(argv[++i]); count <= 0 prints the message
\* on stdout and returns 1.
CutoffRejected ==
  /\ IsCutoffTurn
  /\ \E count \in atoiOutcomes(Arg(i + 1)) :
       /\ count <= 0
       /\ stdout' = [form |-> "cutoff_message", text |-> <<>>, debug |-> FALSE]
       /\ Exit(1)
  /\ i' = i + 1
  /\ UNCHANGED << argv, init, bundle, debugtext, cutoff_count, dir_ok, dir,
                  unread, lower_files, upper_files, unordered_files, bytesize,
                  heap, buffer, buffer_capacity, current_size, n, files,
                  extent, stderr >>

\* --cutoff <value> with count > 0: cutoff_count = count.
CutoffAdopted ==
  /\ IsCutoffTurn
  /\ \E count \in atoiOutcomes(Arg(i + 1)) :
       /\ count > 0
       /\ cutoff_count' = count
  /\ i' = i + 2
  /\ UNCHANGED << pc, argv, init, bundle, debugtext, dir_ok, dir, unread,
                  lower_files, upper_files, unordered_files, bytesize, heap,
                  buffer, buffer_capacity, current_size, n, files, extent,
                  stdout, stderr, exit_status >>

\* opendir(argv[1]) fails: the message on stderr, EXIT_FAILURE.
OpenDirFail ==
  /\ pc = "args" /\ i >= argc /\ ~dir_ok
  /\ stderr' = Append(stderr, "opendir")
  /\ Exit(EXIT_FAILURE)
  /\ UNCHANGED << argv, i, init, bundle, debugtext, cutoff_count, dir_ok, dir,
                  unread, lower_files, upper_files, unordered_files, bytesize,
                  heap, buffer, buffer_capacity, current_size, n, files,
                  extent, stdout >>

OpenDir ==
  /\ pc = "args" /\ i >= argc /\ dir_ok
  /\ pc' = "scan"
  /\ UNCHANGED << argv, i, init, bundle, debugtext, cutoff_count, dir_ok, dir,
                  unread, lower_files, upper_files, unordered_files, bytesize,
                  heap, buffer, buffer_capacity, current_size, n, files,
                  extent, stdout, stderr, exit_status >>

Skipped(d_name) ==
  \/ strcmp(d_name, N_dot) = 0
  \/ strcmp(d_name, N_dotdot) = 0
  \/ HasPrefix(d_name, SKIP)

\* readdir returns ".", ".." or a name that starts with "skip.": continue.
ReadDirSkip ==
  /\ pc = "scan"
  /\ \E d_name \in unread :
       /\ Skipped(d_name)
       /\ unread' = unread \ {d_name}
  /\ UNCHANGED << pc, argv, i, init, bundle, debugtext, cutoff_count, dir_ok,
                  dir, lower_files, upper_files, unordered_files, bytesize,
                  heap, buffer, buffer_capacity, current_size, n, files,
                  extent, stdout, stderr, exit_status >>

\* readdir returns any other name: the entry is built, its size is added to
\* bytesize and it is stored in the array of its category.
ReadDirEntry ==
  /\ pc = "scan"
  /\ \E d_name \in unread :
       /\ ~Skipped(d_name)
       /\ unread' = unread \ {d_name}
       /\ LET new_entry == NewEntry(d_name)
              cat == Category(new_entry.order_num, cutoff_count)
          IN  /\ bytesize' = bytesize + new_entry.bytesize + 2
              /\ lower_files' =
                   IF cat = "lower" THEN Store(lower_files, new_entry)
                   ELSE lower_files
              /\ upper_files' =
                   IF cat = "upper" THEN Store(upper_files, new_entry)
                   ELSE upper_files
              /\ unordered_files' =
                   IF cat = "unordered" THEN Store(unordered_files, new_entry)
                   ELSE unordered_files
  /\ UNCHANGED << pc, argv, i, init, bundle, debugtext, cutoff_count, dir_ok,
                  dir, heap, buffer, buffer_capacity, current_size, n, files,
                  extent, stdout, stderr, exit_status >>

\* readdir returns NULL: closedir.
CloseDir ==
  /\ pc = "scan" /\ unread = {}
  /\ pc' = "sort"
  /\ UNCHANGED << argv, i, init, bundle, debugtext, cutoff_count, dir_ok, dir,
                  unread, lower_files, upper_files, unordered_files, bytesize,
                  heap, buffer, buffer_capacity, current_size, n, files,
                  extent, stdout, stderr, exit_status >>

\* The three qsort calls.
SortPartitions ==
  /\ pc = "sort"
  /\ lower_files' \in qsort(lower_files, "compare_ordered_files")
  /\ upper_files' \in qsort(upper_files, "compare_ordered_files")
  /\ unordered_files' \in qsort(unordered_files, "compare_unordered")
  /\ pc' = "alloc"
  /\ UNCHANGED << argv, i, init, bundle, debugtext, cutoff_count, dir_ok, dir,
                  unread, bytesize, heap, buffer, buffer_capacity,
                  current_size, n, files, extent, stdout, stderr,
                  exit_status >>

\* bundle: buffer = malloc(INITIAL_BUFFER_SIZE); buffer[0] = '\0'.
BundleAlloc ==
  /\ pc = "alloc" /\ OutputForm(init, bundle) = "bundle"
  /\ buffer_capacity' = INITIAL_BUFFER_SIZE
  /\ current_size' = 0
  /\ buffer' = WriteAt(Realloc(<<>>, INITIAL_BUFFER_SIZE), 0, <<"NUL">>)
  /\ heap' = "live"
  /\ extent' = 1
  /\ n' = 0
  /\ pc' = "bundle"
  /\ UNCHANGED << argv, i, init, bundle, debugtext, cutoff_count, dir_ok, dir,
                  unread, lower_files, upper_files, unordered_files, bytesize,
                  files, stdout, stderr, exit_status >>

\* One turn of a bundle loop in which read_file_contents returns NULL
\* (fopen, stat, malloc or fread failed): continue.
BundleSkipFile ==
  /\ pc = "bundle" /\ n < Len(Assembly)
  /\ files' = (Assembly[n + 1].name :> Unreadable) @@ files
  /\ stderr' = Append(stderr, "read")
  /\ n' = n + 1
  /\ UNCHANGED << pc, argv, i, init, bundle, debugtext, cutoff_count, dir_ok,
                  dir, unread, lower_files, upper_files, unordered_files,
                  bytesize, heap, buffer, buffer_capacity, current_size,
                  extent, stdout, exit_status >>

\* One turn of a bundle loop on a file that was read: the buffer is grown,
\* strcat appends the contents at buffer + current_size, current_size moves
\* by file_size, then '\n' and '\0' are stored.
BundleAppend ==
  /\ pc = "bundle" /\ n < Len(Assembly)
  /\ \E c \in FileContents :
       /\ c.ok
       /\ LET file_size == Len(c.data)
              capacity  == ensure_buffer_capacity(buffer_capacity,
                                                  current_size + file_size + 2)
              mem1 == Realloc(buffer, capacity)
              dest == StrEnd(mem1, current_size)
              src  == CStr(c.data)
              mem2 == WriteAt(mem1, dest, src \o <<"NUL">>)
              size == current_size + file_size
              mem3 == WriteAt(mem2, size, <<"\n", "NUL">>)
          IN  /\ buffer_capacity' = capacity
              /\ buffer' = mem3
              /\ current_size' = size + 1
              /\ extent' = Max(extent, Max(dest + Len(src) + 1, size + 2))
       /\ files' = (Assembly[n + 1].name :> c) @@ files
  /\ n' = n + 1
  /\ UNCHANGED << pc, argv, i, init, bundle, debugtext, cutoff_count, dir_ok,
                  dir, unread, lower_files, upper_files, unordered_files,
                  bytesize, heap, stdout, stderr, exit_status >>

\* bundle: printf("%s\n", buffer) (between the two timer lines with
\* --debug), free(buffer), EXIT_SUCCESS.
BundleEmit ==
  /\ pc = "bundle" /\ n = Len(Assembly)
  /\ stdout' = [form |-> "bundle", text |-> CStr(buffer) \o <<"\n">>,
                debug |-> debugtext]
  /\ extent' = Max(extent, Len(CStr(buffer)) + 1)
  /\ heap' = "freed"
  /\ Exit(EXIT_SUCCESS)
  /\ UNCHANGED << argv, i, init, bundle, debugtext, cutoff_count, dir_ok, dir,
                  unread, lower_files, upper_files, unordered_files, bytesize,
                  buffer, buffer_capacity, current_size, n, files, stderr >>

\* list and init: buffer = calloc(1, bytesize) returns a zeroed block.  For
\* bytesize = 0 that is a block of no bytes, where calloc does not return
\* NULL (C11 7.22.3p1 leaves the choice to the implementation).
ListAlloc ==
  /\ pc = "alloc" /\ OutputForm(init, bundle) # "bundle"
  /\ buffer' = [k \in 1..bytesize |-> "NUL"]
  /\ heap' = "live"
  /\ n' = 0
  /\ pc' = "list"
  /\ UNCHANGED << argv, i, init, bundle, debugtext, cutoff_count, dir_ok, dir,
                  unread, lower_files, upper_files, unordered_files, bytesize,
                  buffer_capacity, current_size, files, extent, stdout,
                  stderr, exit_status >>

\* calloc(1, 0) returns NULL: "Cannot allocate buffer", EXIT_FAILURE.
ListAllocFail ==
  /\ pc = "alloc" /\ OutputForm(init, bundle) # "bundle"
  /\ bytesize = 0
  /\ stderr' = Append(stderr, "calloc")
  /\ Exit(EXIT_FAILURE)
  /\ UNCHANGED << argv, i, init, bundle, debugtext, cutoff_count, dir_ok, dir,
                  unread, lower_files, upper_files, unordered_files, bytesize,
                  heap, buffer, buffer_capacity, current_size, n, files,
                  extent, stdout >>

\* The joiner: ' ' for --init, '\n' otherwise.
Joiner == IF init THEN " " ELSE "\n"

\* One turn of a list loop: sprintf(buffer, "%s%s%c", buffer, name, joiner).
\* The destination is also the first argument, which is undefined (C11
\* 7.21.6.6p2): a libc that reads the length first keeps the old text, one
\* that empties the destination first (glibc with _FORTIFY_SOURCE) loses it.
ListAppend ==
  /\ pc = "list" /\ n < Len(Assembly)
  /\ \E old \in {CStr(buffer), <<>>} :
       LET text == old \o Assembly[n + 1].name \o <<Joiner>>
       IN  /\ buffer' = WriteAt(buffer, 0, text \o <<"NUL">>)
           /\ extent' = Max(extent, Len(text) + 1)
  /\ n' = n + 1
  /\ UNCHANGED << pc, argv, i, init, bundle, debugtext, cutoff_count, dir_ok,
                  dir, unread, lower_files, upper_files, unordered_files,
                  bytesize, heap, buffer_capacity, current_size, files,
                  stdout, stderr, exit_status >>

\* list: printf("%s", buffer); init: the script template with buffer, the
\* timer and debug texts and argv[1] substituted.  Then free(buffer) and
\* EXIT_SUCCESS.  %s reads up to the terminator; in a block that holds none
\* the read runs into bytes the block does not own.
ListEmit ==
  /\ pc = "list" /\ n = Len(Assembly)
  /\ \E text \in IF Len(CStr(buffer)) < Len(buffer) THEN {CStr(buffer)}
                 ELSE {CStr(buffer), CStr(buffer) \o <<"UNINIT">>} :
       /\ stdout' = IF OutputForm(init, bundle) = "init"
                    THEN [form |-> "init", text |-> text,
                          debug |-> debugtext, directory |-> Arg(1)]
                    ELSE [form |-> "list", text |-> text, debug |-> FALSE]
       /\ extent' = Max(extent, Len(text) + 1)
  /\ heap' = "freed"
  /\ Exit(EXIT_SUCCESS)
  /\ UNCHANGED << argv, i, init, bundle, debugtext, cutoff_count, dir_ok, dir,
                  unread, lower_files, upper_files, unordered_files, bytesize,
                  buffer, buffer_capacity, current_size, n, files, stderr >>

Next ==
  \/ Usage
  \/ BeginArgs
  \/ ParseFlag
  \/ CutoffRejected
  \/ CutoffAdopted
  \/ OpenDirFail
  \/ OpenDir
  \/ ReadDirSkip
  \/ ReadDirEntry
  \/ CloseDir
  \/ SortPartitions
  \/ BundleAlloc
  \/ BundleSkipFile
  \/ BundleAppend
  \/ BundleEmit
  \/ ListAlloc
  \/ ListAllocFail
  \/ ListAppend
  \/ ListEmit

Spec == Init /\ [][Next]_vars

\* ----------------------------------------------------------- properties
EntryNames(array) == {array[k].name : k \in DOMAIN array}
Entries(array) == {array[k] : k \in DOMAIN array}

\* The directory entries the scan does not skip.
Qualifying(names) == {d \in names : ~Skipped(d)}

\* The three partitions as the specification defines them.
LowNames ==
  {d \in Qualifying(dir) :
     extract_order_number(d) >= 0 /\ extract_order_number(d) < cutoff_count}
HighNames ==
  {d \in Qualifying(dir) : extract_order_number(d) >= cutoff_count}
UnorderedNames == {d \in Qualifying(dir) : extract_order_number(d) < 0}

NoPartitionOverCap ==
  /\ Cardinality(LowNames) <= MAX_FILES
  /\ Cardinality(HighNames) <= MAX_FILES
  /\ Cardinality(UnorderedNames) <= MAX_FILES

\* (order number, then name byte-wise), on the integers.
RefCompare(oa, na, ob, nb) ==
  IF oa # ob THEN (IF oa < ob THEN -1 ELSE 1) ELSE Sign(strcmp(na, nb))

NameBefore(a, b) ==
  RefCompare(extract_order_number(a), a, extract_order_number(b), b) < 0

\* The names of a set, ascending by (order number, name).
RECURSIVE Ascending(_)
Ascending(names) ==
  IF names = {} THEN <<>>
  ELSE LET first == CHOOSE a \in names :
                      \A b \in names \ {a} : NameBefore(a, b)
       IN  <<first>> \o Ascending(names \ {first})

ExpectedOrder ==
  Ascending(LowNames) \o Ascending(UnorderedNames) \o Ascending(HighNames)

\* The pieces of text that end with the joiner sep.
RECURSIVE SplitFrom(_, _, _, _)
SplitFrom(text, sep, p, piece) ==
  IF p > Len(text) THEN (IF piece = <<>> THEN <<>> ELSE <<piece>>)
  ELSE IF text[p] = sep
       THEN <<piece>> \o SplitFrom(text, sep, p + 1, <<>>)
       ELSE SplitFrom(text, sep, p + 1, Append(piece, text[p]))

Split(text, sep) == SplitFrom(text, sep, 1, <<>>)

\* C1: in list mode, when no partition exceeds the cap, the printed buffer
\* split on the newline is exactly low ascending, then unordered ascending
\* by name, then high ascending, every non-skipped entry once.
C1_ListOutputExact ==
  (pc = "done" /\ stdout.form = "list" /\ NoPartitionOverCap)
  => Split(stdout.text, "\n") = ExpectedOrder

\* C2: a name without the prefix "ordered." is stored in unordered_files
\* and never in lower_files or upper_files, so no array holds an entry
\* without an order number next to one with an order number.
C2_UnprefixedOnlyInUnordered ==
  /\ \A e \in Entries(lower_files) \cup Entries(upper_files) :
       HasPrefix(e.name, ORDERED)
  /\ \A array \in {lower_files, upper_files, unordered_files} :
       ~(\E a, b \in Entries(array) : a.order_num < 0 /\ b.order_num >= 0)

\* C3: for a cutoff c > 0, an entry whose order number n is present is in
\* lower_files iff n < c and in upper_files iff n >= c (while the array it
\* goes to is not full), never in both and never in unordered_files.  That
\* every scanned name was stored is looked at during the scan and when it
\* has ended; after it the arrays are only rearranged.
C3_CutoffPartition ==
  /\ cutoff_count > 0
  /\ \A e \in Entries(lower_files) :
       e.order_num >= 0 /\ e.order_num < cutoff_count
  /\ \A e \in Entries(upper_files) :
       e.order_num >= 0 => e.order_num >= cutoff_count
  /\ \A e \in Entries(unordered_files) : e.order_num < 0
  /\ pc \in {"scan", "sort"} =>
     \A d \in Qualifying(dir \ unread) :
       \A o \in {extract_order_number(d)} :
         /\ ~(d \in EntryNames(lower_files) /\ d \in EntryNames(upper_files))
         /\ (o >= 0 /\ o < cutoff_count /\ Len(lower_files) < MAX_FILES)
              => [name |-> d, order_num |-> o, bytesize |-> Len(d)]
                   \in Entries(lower_files)
         /\ (o >= cutoff_count /\ Len(upper_files) < MAX_FILES)
              => [name |-> d, order_num |-> o, bytesize |-> Len(d)]
                   \in Entries(upper_files)

\* --cutoff 10 was adopted; order 1 went to lower_files and order 10, which
\* the default cutoff puts in lower_files, went to upper_files.
C3_Witness ==
  /\ pc = "done" /\ cutoff_count = 10
  /\ N_ordered_01_first \in EntryNames(lower_files)
  /\ N_ordered_10_y \in EntryNames(upper_files)

\* The order number the specification gives a name: the value of the digits
\* right after "ordered." when there is a digit there and the value fits an
\* int, else -1.
RefOrderNumber(name) ==
  IF /\ HasPrefix(name, ORDERED)
     /\ Len(name) > Len(ORDERED)
     /\ isdigit(name[Len(ORDERED) + 1])
  THEN LET v == DecValue(name, Len(ORDERED) + 1,
                         DigitsEnd(name, Len(ORDERED) + 1),
                         [over |-> FALSE, val |-> 0])
       IN  IF v.over THEN -1 ELSE v.val
  ELSE -1

\* C4: the order number stored for every entry is the one the reference
\* gives its name.
C4_ExtractMatchesReference ==
  \A e \in Entries(lower_files) \cup Entries(upper_files)
             \cup Entries(unordered_files) :
    e.order_num = RefOrderNumber(e.name)

\* The contents of the readable files among names, each followed by one
\* newline, in the order of names.
RECURSIVE Concatenation(_, _)
Concatenation(names, p) ==
  IF p > Len(names) THEN <<>>
  ELSE (IF files[names[p]].ok THEN files[names[p]].data \o <<"\n">>
        ELSE <<>>)
       \o Concatenation(names, p + 1)

\* C5: in bundle mode the output is the concatenation, in the order low,
\* unordered, high with each partition sorted, of every readable file's
\* whole contents followed by one newline (printf adds the last newline);
\* an unreadable file adds nothing and the run still succeeds.
C5_BundleConcatenation ==
  (pc = "done" /\ bundle /\ dir_ok /\ stdout.form # "cutoff_message"
     /\ NoPartitionOverCap)
  => /\ exit_status = EXIT_SUCCESS
     /\ stdout.form = "bundle"
     /\ \A k \in DOMAIN ExpectedOrder : ExpectedOrder[k] \in DOMAIN files
     /\ stdout.text = Concatenation(ExpectedOrder, 1) \o <<"\n">>

\* C6, as stated: with --init and --bundle both given, the init script is
\* what the run prints.
C6_InitPrecedence ==
  (pc = "done" /\ init /\ bundle /\ exit_status = EXIT_SUCCESS)
  => stdout.form = "init"

\* C6, amended: with --init and --bundle both given, in either order, the
\* run prints the bundle (the file contents), not the init script.
C6_BundlePrecedence ==
  (pc = "done" /\ init /\ bundle /\ exit_status = EXIT_SUCCESS)
  => /\ stdout.form = "bundle"
     /\ stdout.text = CStr(buffer) \o <<"\n">>

\* A run with both flags, --bundle first, that printed file contents.
C6_Witness ==
  /\ pc = "done" /\ init /\ bundle
  /\ wal_stricmp(Arg(2), A_bundle) = 0
  /\ stdout.form = "bundle"
  /\ \E k \in DOMAIN Assembly :
       Assembly[k].name \in DOMAIN files /\ files[Assembly[k].name].ok

\* A non-empty string of decimal digits that is not all zeros.
PositiveDecimal(s) ==
  /\ Len(s) > 0
  /\ \A k \in DOMAIN s : isdigit(s[k])
  /\ \E k \in DOMAIN s : s[k] # "0"

BadCutoffGiven ==
  \E k \in 2..(argc - 2) :
    wal_stricmp(Arg(k), A_cutoff) = 0 /\ ~PositiveDecimal(Arg(k + 1))

\* C7: when --cutoff is given a value that is not a positive base-10
\* integer, the run fails before the directory is opened, prints no result
\* and adopts no cutoff.
C7_BadCutoffRejected ==
  BadCutoffGiven =>
    /\ pc \in {"start", "args", "done"}
    /\ cutoff_count = DEFAULT_CUTOFF
    /\ pc = "done" =>
         (exit_status # EXIT_SUCCESS
            /\ stdout.form \in {"none", "cutoff_message"})

ComparatorAgrees(array, cmp(_, _)) ==
  \A a, b \in Entries(array) :
    /\ ~SubOverflows(a.order_num, b.order_num)
    /\ Sign(cmp(a, b)) = RefCompare(a.order_num, a.name, b.order_num, b.name)
    /\ Sign(cmp(a, b)) = -Sign(cmp(b, a))
    /\ \A c \in Entries(array) :
         (cmp(a, b) < 0 /\ cmp(b, c) < 0) => cmp(a, c) < 0

\* C8: on the entries main puts in one array the comparators give the sign
\* of comparing (order number, then name): no subtraction overflows, and
\* the relation is antisymmetric and transitive.
C8_ComparatorTotalOrder ==
  /\ ComparatorAgrees(lower_files, compare_ordered_files)
  /\ ComparatorAgrees(upper_files, compare_ordered_files)
  /\ ComparatorAgrees(unordered_files, compare_unordered)

RECURSIVE Pow2(_)
Pow2(k) == IF k = 0 THEN 1 ELSE 2 * Pow2(k - 1)

C9_CapacityInv ==
  (bundle /\ heap # "null") =>
    /\ \E k \in 0..MaxDoublings :
         buffer_capacity = INITIAL_BUFFER_SIZE * Pow2(k)
    /\ buffer_capacity >= current_size + 1
    /\ extent <= buffer_capacity
    /\ Len(buffer) = buffer_capacity

C9_CapacityStep ==
  /\ buffer_capacity' >= buffer_capacity
  /\ (pc = "bundle" /\ n' = n + 1 /\ current_size' + 1 <= buffer_capacity)
       => buffer_capacity' = buffer_capacity

\* C9: in bundle mode the capacity is INITIAL_BUFFER_SIZE times a power of
\* two, never shrinks, stays as it is when the needed size fits, and is at
\* least current_size + 1, so no append touches a byte outside the buffer.
C9_BufferCapacity == []C9_CapacityInv /\ [][C9_CapacityStep]_vars

\* A bundle whose buffer was doubled more than once.
C9_Witness ==
  /\ pc = "done" /\ stdout.form = "bundle"
  /\ buffer_capacity > 2 * INITIAL_BUFFER_SIZE
  /\ Cardinality({d \in DOMAIN files : files[d].ok}) >= 2

\* C10: in list mode (and for --init) the block of bytesize bytes holds
\* every byte the appends write and the emission reads, and the run ends
\* with success, for every directory.
C10_ListBufferFits ==
  (~bundle /\ dir_ok /\ argc >= 2 /\ stdout.form # "cutoff_message"
     /\ pc \in {"list", "done"})
  => /\ extent <= bytesize
     /\ pc = "done" => exit_status = EXIT_SUCCESS

====
